---------------------------- MODULE Spec2Model ----------------------------
(***************************************************************************)
(* Model of visits/forms.py: the coordinate validation of                  *)
(* NewVisitForm.clean, the contact-person choice list of                   *)
(* NewVisitForm.__init__, and the stage-dependent field configuration of   *)
(* UpdateVisitForm.__init__ and UpdateProductInterestedForm.__init__.      *)
(*                                                                         *)
(* Text is modelled as a sequence of one-character strings.  A value that  *)
(* may be Python's None is a record [present, chars]; present = FALSE is   *)
(* None (or a key that is not in the mapping).                             *)
(***************************************************************************)
EXTENDS Integers, Sequences, FiniteSets, TLC

(***************************************************************************)
(* Bounds of the model.                                                    *)
(***************************************************************************)
\* longest generated coordinate text (longer texts come from CoordExamples)
MaxLen == 3
\* number of companies in the customer directory
MaxCompanies == 2
\* number of contacts in the contact directory
MaxContacts == 3
\* number of form instantiations followed in one request sequence
MaxForms == 3

(***************************************************************************)
(* Text helpers.                                                           *)
(***************************************************************************)
DigitChars == <<"0", "1", "2", "3", "4", "5", "6", "7", "8", "9">>

IsDigit(c) == \E i \in 1..10 : DigitChars[i] = c

DigitVal(c) == (CHOOSE i \in 1..10 : DigitChars[i] = c) - 1

AllDigits(s) == \A i \in 1..Len(s) : IsDigit(s[i])

Lower(c) ==
    CASE c = "E" -> "e"
      [] c = "I" -> "i"
      [] c = "N" -> "n"
      [] c = "F" -> "f"
      [] c = "A" -> "a"
      [] c = "S" -> "s"
      [] c = "T" -> "t"
      [] c = "Y" -> "y"
      [] OTHER -> c

LowerAll(s) == [i \in 1..Len(s) |-> Lower(s[i])]

IsSpace(c) == c = " "

RECURSIVE LStrip(_)
LStrip(s) == IF s # <<>> /\ IsSpace(s[1]) THEN LStrip(Tail(s)) ELSE s

RECURSIVE RStrip(_)
RStrip(s) ==
    IF s # <<>> /\ IsSpace(s[Len(s)]) THEN RStrip(SubSeq(s, 1, Len(s) - 1)) ELSE s

\* str.strip()
Strip(s) == RStrip(LStrip(s))

\* str.replace("_", "")
RemoveUnderscores(s) == SelectSeq(s, LAMBDA c : c # "_")

\* int(digits) for a run of decimal digits (0 for the empty run)
RECURSIVE DigitsToNat(_)
DigitsToNat(s) ==
    IF s = <<>> THEN 0
    ELSE 10 * DigitsToNat(SubSeq(s, 1, Len(s) - 1)) + DigitVal(s[Len(s)])

RECURSIVE StripLeadingZeros(_)
StripLeadingZeros(s) ==
    IF Len(s) > 1 /\ s[1] = "0" THEN StripLeadingZeros(Tail(s)) ELSE s

\* k copies of "0"
Zeros(k) == [i \in 1..k |-> "0"]

\* str(int(digits) + 1) for a run of decimal digits without leading zeros
RECURSIVE IncDigits(_)
IncDigits(s) ==
    IF s = <<>> THEN <<"1">>
    ELSE IF s[Len(s)] = "9"
         THEN Append(IncDigits(SubSeq(s, 1, Len(s) - 1)), "0")
         ELSE Append(SubSeq(s, 1, Len(s) - 1), DigitChars[DigitVal(s[Len(s)]) + 2])

\* position of the first occurrence of c in s, 0 when there is none
FirstIndex(s, c) ==
    IF \E i \in 1..Len(s) : s[i] = c
    THEN CHOOSE i \in 1..Len(s) : s[i] = c /\ \A j \in 1..(i - 1) : s[j] # c
    ELSE 0

(***************************************************************************)
(* Optional values.                                                        *)
(***************************************************************************)
None == [present |-> FALSE, chars |-> <<>>]

Text(s) == [present |-> TRUE, chars |-> s]

\* Python truthiness of an optional text: None and "" are falsy
Truthy(v) == v.present /\ v.chars # <<>>

\* str(v): the text itself, or "None" for None
Str(v) == IF v.present THEN v.chars ELSE <<"N", "o", "n", "e">>

(***************************************************************************)
(* decimal.Decimal, as far as clean() uses it: construction from text,     *)
(* quantize(Decimal("0.000001"), rounding=ROUND_HALF_UP) and str().        *)
(* A Decimal is [kind, sign, int, exp]: kind "fin" (finite), "F"           *)
(* (infinity), "n" (quiet NaN) or "N" (signalling NaN); int is the         *)
(* coefficient as a run of digits without leading zeros.                   *)
(***************************************************************************)
\* precision of the default decimal context
DecimalPrec == 28
\* Emax of the default decimal context
DecimalEmax == 999999
\* number of fractional digits of Decimal("0.000001")
CoordPlaces == 6

Dec(kind, sign, int, exp) == [kind |-> kind, sign |-> sign, int |-> int, exp |-> exp]

NoDecimal == [ok |-> FALSE, d |-> Dec("fin", 0, <<"0">>, 0)]

\* the exponent part after "e": [sign] digits+
ParseExponent(s) ==
    LET signed == s # <<>> /\ s[1] \in {"-", "+"}
        ds     == IF signed THEN Tail(s) ELSE s
    IN  IF ds # <<>> /\ AllDigits(ds)
        THEN [ok |-> TRUE,
              val |-> IF signed /\ s[1] = "-" THEN 0 - DigitsToNat(ds) ELSE DigitsToNat(ds)]
        ELSE [ok |-> FALSE, val |-> 0]

\* the finite alternative of the grammar: digits [. digits] [e exponent]
ParseFinite(sign, body) ==
    LET epos  == FirstIndex(body, "e")
        mant  == IF epos = 0 THEN body ELSE SubSeq(body, 1, epos - 1)
        ex    == IF epos = 0 THEN [ok |-> TRUE, val |-> 0]
                 ELSE ParseExponent(SubSeq(body, epos + 1, Len(body)))
        dpos  == FirstIndex(mant, ".")
        intp  == IF dpos = 0 THEN mant ELSE SubSeq(mant, 1, dpos - 1)
        fracp == IF dpos = 0 THEN <<>> ELSE SubSeq(mant, dpos + 1, Len(mant))
    IN  IF /\ ex.ok
           /\ AllDigits(intp)
           /\ AllDigits(fracp)
           /\ Len(intp) + Len(fracp) >= 1
        THEN [ok |-> TRUE,
              d  |-> Dec("fin", sign, StripLeadingZeros(intp \o fracp), ex.val - Len(fracp))]
        ELSE NoDecimal

\* Decimal(text): ok = FALSE when the constructor raises InvalidOperation
ParseDecimal(s) ==
    LET t      == RemoveUnderscores(Strip(s))
        signed == t # <<>> /\ t[1] \in {"-", "+"}
        sign   == IF signed /\ t[1] = "-" THEN 1 ELSE 0
        body   == LowerAll(IF signed THEN Tail(t) ELSE t)
    IN  IF body = <<"i", "n", "f">> \/ body = <<"i", "n", "f", "i", "n", "i", "t", "y">>
        THEN [ok |-> TRUE, d |-> Dec("F", sign, <<"0">>, 0)]
        ELSE IF Len(body) >= 3 /\ SubSeq(body, 1, 3) = <<"n", "a", "n">>
                /\ AllDigits(SubSeq(body, 4, Len(body)))
        THEN [ok |-> TRUE, d |-> Dec("n", sign, SubSeq(body, 4, Len(body)), 0)]
        ELSE IF Len(body) >= 4 /\ SubSeq(body, 1, 4) = <<"s", "n", "a", "n">>
                /\ AllDigits(SubSeq(body, 5, Len(body)))
        THEN [ok |-> TRUE, d |-> Dec("N", sign, SubSeq(body, 5, Len(body)), 0)]
        ELSE ParseFinite(sign, body)

IsZero(d) == d.kind = "fin" /\ d.int = <<"0">>

\* Decimal.adjusted(): the exponent of the most significant digit
Adjusted(d) == d.exp + Len(d.int) - 1

\* a rounding that sends ties towards zero
RoundHalfUp_HalfDown(int, digits) == int[digits + 1] \in {"6", "7", "8", "9"}

\* Decimal._round_half_up: is the first dropped digit one of 5..9
RoundHalfUp(int, digits) == int[digits + 1] \in {"5", "6", "7", "8", "9"}

\* Decimal._rescale(exp, ROUND_HALF_UP) of a non-zero finite Decimal
Rescale(d, exp) ==
    IF d.exp >= exp
    THEN Dec("fin", d.sign, d.int \o Zeros(d.exp - exp), exp)
    ELSE LET digits == Len(d.int) + d.exp - exp
             src    == IF digits < 0 THEN <<"1">> ELSE d.int
             kept   == IF digits < 0 THEN 0 ELSE digits
             coeff  == IF kept = 0 THEN <<"0">> ELSE SubSeq(src, 1, kept)
         IN  Dec("fin", d.sign,
                 IF RoundHalfUp(src, kept) THEN IncDigits(StripLeadingZeros(coeff)) ELSE coeff,
                 exp)

\* d.quantize(Decimal("0.000001"), rounding=ROUND_HALF_UP);
\* ok = FALSE when it raises InvalidOperation
Quantize(d) ==
    LET exp == 0 - CoordPlaces
        ans == Rescale(d, exp)
    IN  IF d.kind = "n" THEN [ok |-> TRUE, d |-> d]
        ELSE IF d.kind # "fin" THEN NoDecimal
        ELSE IF IsZero(d) THEN [ok |-> TRUE, d |-> Dec("fin", d.sign, <<"0">>, exp)]
        ELSE IF Adjusted(d) > DecimalEmax THEN NoDecimal
        ELSE IF Adjusted(d) - exp + 1 > DecimalPrec THEN NoDecimal
        ELSE IF Adjusted(ans) > DecimalEmax THEN NoDecimal
        ELSE IF Len(ans.int) > DecimalPrec THEN NoDecimal
        ELSE [ok |-> TRUE, d |-> ans]

\* str(d) for the Decimals Quantize returns: a NaN, or a finite Decimal
\* with a negative exponent, which Decimal.__str__ prints without exponent
DecimalStr(d) ==
    LET signc    == IF d.sign = 1 THEN <<"-">> ELSE <<>>
        dotplace == d.exp + Len(d.int)
    IN  IF d.kind = "n" THEN signc \o <<"N", "a", "N">> \o d.int
        ELSE IF dotplace <= 0
        THEN signc \o <<"0", ".">> \o Zeros(0 - dotplace) \o d.int
        ELSE signc \o SubSeq(d.int, 1, dotplace) \o <<".">>
                   \o SubSeq(d.int, dotplace + 1, Len(d.int))

\* str(Decimal(str(v)).quantize(Decimal("0.000001"), rounding=ROUND_HALF_UP));
\* ok = FALSE when any step raises
NormalizeCoordinate(v) ==
    LET p == ParseDecimal(Str(v))
        q == Quantize(p.d)
    IN  IF p.ok /\ q.ok
        THEN [ok |-> TRUE, chars |-> DecimalStr(q.d)]
        ELSE [ok |-> FALSE, chars |-> <<>>]

(***************************************************************************)
(* NewVisitForm.clean                                                      *)
(***************************************************************************)
MissingLocation == "Location not detected. Allow location access and wait for the map."

InvalidCoordinate == "Invalid coordinates received. Please refresh and try again."

\* the key under which a ValidationError raised by clean() is reported
NonFieldErrors == "__all__"

\* a guard that asks for both coordinates to be absent
LocationMissing_Both(lat, lon) == ~Truthy(lat) /\ ~Truthy(lon)

\* the guard of the first raise: "not lat or not lon"
LocationMissing(lat, lon) == ~Truthy(lat) \/ ~Truthy(lon)

\* a clean() whose try block covers the latitude only
Clean_LatitudeOnly(cleaned) ==
    LET lat  == cleaned.latitude
        lon  == cleaned.longitude
        nlat == NormalizeCoordinate(lat)
        nlon == NormalizeCoordinate(lon)
    IN  IF LocationMissing(lat, lon)
        THEN [ok |-> FALSE, error |-> MissingLocation, field |-> NonFieldErrors,
              latitude |-> None, longitude |-> None]
        ELSE IF ~nlat.ok
        THEN [ok |-> FALSE, error |-> InvalidCoordinate, field |-> NonFieldErrors,
              latitude |-> None, longitude |-> None]
        ELSE [ok |-> TRUE, error |-> "", field |-> "",
              latitude |-> Text(nlat.chars), longitude |-> Text(Str(lon))]

\* clean(): cleaned is the mapping super().clean() returned.  The result is
\* [ok, error, field, latitude, longitude]; ok = FALSE when clean() raises
\* ValidationError(error), which the form reports under the key field.
Clean(cleaned) ==
    LET lat  == cleaned.latitude
        lon  == cleaned.longitude
        nlat == NormalizeCoordinate(lat)
        nlon == NormalizeCoordinate(lon)
    IN  IF LocationMissing(lat, lon)
        THEN [ok |-> FALSE, error |-> MissingLocation, field |-> NonFieldErrors,
              latitude |-> None, longitude |-> None]
        ELSE IF ~nlat.ok \/ ~nlon.ok
        THEN [ok |-> FALSE, error |-> InvalidCoordinate, field |-> NonFieldErrors,
              latitude |-> None, longitude |-> None]
        ELSE [ok |-> TRUE, error |-> "", field |-> "",
              latitude |-> Text(nlat.chars), longitude |-> Text(nlon.chars)]


(***************************************************************************)
(* State.                                                                  *)
(*   contacts     the contact directory: records [id, customer_id,         *)
(*                contact_name]; contact_name is the collation rank of the *)
(*                name, so that order_by("contact_name") is numeric order  *)
(*   base_fields  the class-level fields of the two update forms, which    *)
(*                every instance copies: for each field [required, widget, *)
(*                choices]                                                 *)
(*   forms        the forms instantiated so far, oldest first              *)
(***************************************************************************)
VARIABLES contacts, base_fields, forms

vars == <<contacts, base_fields, forms>>

(***************************************************************************)
(* Field cleaning of the coordinate fields (BaseForm._clean_fields with    *)
(* the form fields derived from the NewVisit model): a required text       *)
(* field.  A missing, empty or blank value gets a required-field error and *)
(* is left out of cleaned_data; any other value is kept, stripped.         *)
(***************************************************************************)
FieldClean(raw) ==
    IF raw.present /\ Strip(raw.chars) # <<>> THEN Text(Strip(raw.chars)) ELSE None

\* super().clean(): the cleaned mapping of the coordinate fields
SuperClean(data) ==
    [latitude |-> FieldClean(data.latitude), longitude |-> FieldClean(data.longitude)]

(***************************************************************************)
(* NewVisitForm.__init__: the contact-person choice list                   *)
(***************************************************************************)
SelectCompanyFirst == "Select company first"

SelectContact == "Select contact"

\* int(text): ok = FALSE when it raises ValueError
ParseInt(s) ==
    LET t      == Strip(s)
        signed == t # <<>> /\ t[1] \in {"-", "+"}
        body   == IF signed THEN Tail(t) ELSE t
        ds     == RemoveUnderscores(body)
        wellUnderscored ==
            /\ body # <<>>
            /\ body[1] # "_"
            /\ body[Len(body)] # "_"
            /\ \A i \in 1..(Len(body) - 1) : ~(body[i] = "_" /\ body[i + 1] = "_")
    IN  IF wellUnderscored /\ ds # <<>> /\ AllDigits(ds)
        THEN [ok |-> TRUE,
              val |-> IF signed /\ t[1] = "-" THEN 0 - DigitsToNat(ds) ELSE DigitsToNat(ds)]
        ELSE [ok |-> FALSE, val |-> 0]

\* An instance is [pk, company_name_id]; 0 stands for None.
\* a company_id that looks at the bound record before the submission
CompanyId_InstanceFirst(data, instance) ==
    IF instance.pk # 0 /\ instance.company_name_id # 0
    THEN instance.company_name_id
    ELSE IF Truthy(data.company_name) /\ ParseInt(data.company_name.chars).ok
         THEN ParseInt(data.company_name.chars).val
         ELSE 0

\* company_id as lines 47-54 compute it; 0 stands for None.
CompanyId(data, instance) ==
    IF Truthy(data.company_name)
    THEN IF ParseInt(data.company_name.chars).ok
         THEN ParseInt(data.company_name.chars).val
         ELSE 0
    ELSE IF instance.pk # 0 /\ instance.company_name_id # 0
         THEN instance.company_name_id
         ELSE 0

\* CustomerContact.objects.filter(customer_id=company_id)
FilterByCustomer(db, company_id) == {c \in db : c.customer_id = company_id}

\* the sequences that are rows ordered by contact_name: the order of rows
\* with equal names is the database's choice
RECURSIVE OrderByName(_)
OrderByName(rows) ==
    IF rows = {} THEN {<<>>}
    ELSE UNION {{<<c>> \o rest : rest \in OrderByName(rows \ {c})} :
                c \in {x \in rows : \A y \in rows : x.contact_name <= y.contact_name}}

\* the querysets lines 44-60 may leave on fields["contact_person"]
ContactQuerysets(db, data, instance) ==
    IF CompanyId(data, instance) # 0
    THEN OrderByName(FilterByCustomer(db, CompanyId(data, instance)))
    ELSE {<<>>}

ContactEmptyLabel(data, instance) ==
    IF CompanyId(data, instance) # 0 THEN SelectContact ELSE SelectCompanyFirst

NoResult == [ok |-> FALSE, error |-> "", field |-> "", latitude |-> None, longitude |-> None]

\* the NewVisitForm that NewVisitForm(data, instance=instance) constructs
NewVisitFormInit(data, instance, queryset) ==
    [cls |-> "NewVisitForm",
     data |-> data,
     instance |-> instance,
     queryset |-> queryset,
     empty_label |-> ContactEmptyLabel(data, instance),
     validated |-> FALSE,
     result |-> NoResult]

\* form.is_valid(): field cleaning, then clean()
NewVisitFormFullClean(f) ==
    [f EXCEPT !.validated = TRUE, !.result = Clean(SuperClean(f.data))]


(***************************************************************************)
(* Inputs.                                                                 *)
(***************************************************************************)
CoordAlphabet == {"-", ".", "0", "5", "e", "x"}

\* every text of at most MaxLen characters over CoordAlphabet
ShortTexts == UNION {[1..n -> CoordAlphabet] : n \in 1..MaxLen}

\* texts that make the rounding, the carry, the signs, the exponent forms,
\* the special values and the precision limit of quantize happen
CoordExamples ==
    {<<"1", "2", ".", "1", "2", "3", "4", "5", "6", "5">>,
     <<"1", "2", ".", "1", "2", "3", "4", "5", "6", "4">>,
     <<"-", "1", "2", ".", "1", "2", "3", "4", "5", "6", "5">>,
     <<"-", "1", "2", ".", "1", "2", "3", "4", "5", "6", "4">>,
     <<"9", ".", "9", "9", "9", "9", "9", "9", "5">>,
     <<"-", "9", ".", "9", "9", "9", "9", "9", "9", "5">>,
     <<"0", ".", "0", "0", "0", "0", "0", "0", "5">>,
     <<"-", "0", ".", "0", "0", "0", "0", "0", "0", "5">>,
     <<"0", ".", "0", "0", "0", "0", "0", "0", "4">>,
     <<"-", "0", ".", "0", "0", "0", "0", "0", "0", "1">>,
     <<"1", "7", "9", ".", "9", "9", "9", "9", "9", "9", "5">>,
     <<"8", "9", ".", "9", "9", "9", "9", "9", "9">>,
     <<"0", ".", "1", "2", "3", "4", "5", "6", "7", "8", "9", "0">>,
     <<"0", ".", "0", "0", "0", "0", "0", "0", "4", "9", "9", "9", "9">>,
     <<"5", "e", "-", "7">>,
     <<"4", "e", "-", "7">>,
     <<"1", ".", "5", "e", "1">>,
     <<"+", "5">>,
     <<" ", "5", " ">>,
     <<"1", "_", "0">>,
     <<"0", "0", "7", ".", "5", "0">>,
     <<"1", "e", "2", "1">>,
     <<"1", "e", "2", "2">>,
     <<"1", "e", "-", "9", "9">>,
     <<"N", "a", "N">>,
     <<"-", "n", "a", "n">>,
     <<"s", "N", "a", "N">>,
     <<"I", "n", "f", "i", "n", "i", "t", "y">>,
     <<"-", "i", "n", "f">>,
     <<"a", "b", "c">>,
     <<"1", ".", "2", ".", "3">>,
     <<"1", "2", ",", "5">>,
     <<"1", "e">>,
     <<"-", "-", "5">>,
     <<"N", "o", "n", "e">>}

\* what a submission may hold for a coordinate: no key, "", or a text
CoordInputs == {None, Text(<<>>)} \cup {Text(s) : s \in ShortTexts \cup CoordExamples}

\* the values of the other coordinate while one ranges over CoordInputs
OtherCoordInputs ==
    {None, Text(<<>>), Text(<<" ">>), Text(<<"0">>), Text(<<"x">>),
     Text(<<"-", "5", ".", "5">>), Text(<<"N", "a", "N">>),
     Text(<<"1", "2", ".", "1", "2", "3", "4", "5", "6", "5">>)}

NoInstance == [pk |-> 0, company_name_id |-> 0]

NoContacts == {}

\* base_fields of a specification that instantiates no update form
NoBaseFields == [UpdateVisitForm |-> <<>>, UpdateProductInterestedForm |-> <<>>]

(***************************************************************************)
(* Operations on NewVisitForm.                                             *)
(***************************************************************************)
\* the latest form
Last == forms[Len(forms)]

\* NewVisitForm(data, instance=instance), keeping only this form
NewVisitOpen(datas, instances) ==
    \E data \in datas, instance \in instances :
        \E q \in ContactQuerysets(contacts, data, instance) :
            /\ forms' = <<NewVisitFormInit(data, instance, q)>>
            /\ UNCHANGED <<contacts, base_fields>>

\* form.is_valid() on the latest form
NewVisitIsValid ==
    /\ forms # <<>>
    /\ Last.cls = "NewVisitForm"
    /\ ~Last.validated
    /\ forms' = [forms EXCEPT ![Len(forms)] = NewVisitFormFullClean(Last)]
    /\ UNCHANGED <<contacts, base_fields>>

(***************************************************************************)
(* SpecClean: submissions of coordinates to NewVisitForm.                  *)
(***************************************************************************)
CleanData ==
    {[company_name |-> None, latitude |-> a, longitude |-> b] :
        a \in CoordInputs, b \in OtherCoordInputs}
    \cup
    {[company_name |-> None, latitude |-> a, longitude |-> b] :
        a \in OtherCoordInputs, b \in CoordInputs}

\* what a user resubmits after seeing the result of a validation
ResubmitData ==
    {[company_name |-> None, latitude |-> a, longitude |-> b] :
        a \in OtherCoordInputs, b \in OtherCoordInputs}

\* a NewVisitForm has been constructed from a submission
InitClean ==
    /\ contacts = NoContacts
    /\ base_fields = NoBaseFields
    /\ \E data \in CleanData : forms = <<NewVisitFormInit(data, NoInstance, <<>>)>>

\* the caller re-renders with errors (or goes on) and a new submission arrives
NewVisitResubmit ==
    /\ forms # <<>>
    /\ Last.cls = "NewVisitForm"
    /\ Last.validated
    /\ NewVisitOpen(ResubmitData, {NoInstance})

NextClean == NewVisitIsValid \/ NewVisitResubmit

SpecClean == InitClean /\ [][NextClean]_vars


(***************************************************************************)
(* Coordinate claims, checked under SpecClean.                             *)
(***************************************************************************)
AllForms == {forms[i] : i \in 1..Len(forms)}

ValidatedNewVisitForms == {f \in AllForms : f.cls = "NewVisitForm" /\ f.validated}

\* a submitted coordinate that is absent: no key, "", or only blanks
Blank(raw) == ~raw.present \/ \A i \in 1..Len(raw.chars) : raw.chars[i] = " "

\* C1: a submission in which latitude or longitude is absent fails with the
\* MissingLocation error and returns no cleaned coordinates
C1_MissingLocationRejected ==
    \A f \in ValidatedNewVisitForms :
        (Blank(f.data.latitude) \/ Blank(f.data.longitude)) =>
            /\ ~f.result.ok
            /\ f.result.error = MissingLocation
            /\ f.result.latitude = None
            /\ f.result.longitude = None

\* a validated submission with a decimal latitude and no longitude
C1_Witness ==
    \E f \in ValidatedNewVisitForms :
        /\ f.data.latitude = Text(<<"-", "5", ".", "5">>)
        /\ f.data.longitude = None
        /\ f.result.error = MissingLocation

RECURSIVE Pow10(_)
Pow10(n) == IF n = 0 THEN 1 ELSE 10 * Pow10(n - 1)

RECURSIVE NatToText(_)
NatToText(n) ==
    IF n < 10 THEN <<DigitChars[n + 1]>>
    ELSE Append(NatToText(n \div 10), DigitChars[(n % 10) + 1])

\* n in exactly w digits, for n < 10^w
Padded(n, w) == Zeros(w - Len(NatToText(n))) \o NatToText(n)

HasSign(s) == s # <<>> /\ s[1] \in {"-", "+"}

Unsigned(s) == IF HasSign(s) THEN Tail(s) ELSE s

\* a plain decimal numeral: [sign] digits [. digits], with at least one digit
PlainDecimal(s) ==
    LET u == Unsigned(s)
    IN  /\ \A i \in 1..Len(u) : IsDigit(u[i]) \/ u[i] = "."
        /\ Cardinality({i \in 1..Len(u) : u[i] = "."}) <= 1
        /\ \E i \in 1..Len(u) : IsDigit(u[i])

\* the digits of a plain decimal numeral before and after the point
IntDigits(s) ==
    LET u == Unsigned(s)
    IN  IF FirstIndex(u, ".") = 0 THEN u ELSE SubSeq(u, 1, FirstIndex(u, ".") - 1)

FracDigits(s) ==
    LET u == Unsigned(s)
    IN  IF FirstIndex(u, ".") = 0 THEN <<>> ELSE SubSeq(u, FirstIndex(u, ".") + 1, Len(u))

\* the magnitude of the plain decimal numeral s in millionths, rounded to
\* the nearest millionth with a tie going up
RoundedMicros(s) ==
    LET n == DigitsToNat(IntDigits(s) \o FracDigits(s))
        k == Len(FracDigits(s))
        p == Pow10(k - CoordPlaces)
    IN  IF k <= CoordPlaces THEN n * Pow10(CoordPlaces - k)
        ELSE (n \div p) + (IF 2 * (n % p) >= p THEN 1 ELSE 0)

\* a plain decimal numeral of magnitude at most limit (after rounding)
CoordinateText(raw, limit) ==
    /\ raw.present
    /\ PlainDecimal(raw.chars)
    /\ Len(StripLeadingZeros(IntDigits(raw.chars))) <= 3
    /\ RoundedMicros(raw.chars) <= limit * Pow10(CoordPlaces)

\* the numeral with exactly 6 fractional digits of the rounded value
ExpectedCoordinate(s) ==
    (IF HasSign(s) /\ s[1] = "-" THEN <<"-">> ELSE <<>>)
        \o NatToText(RoundedMicros(s) \div Pow10(CoordPlaces))
        \o <<".">>
        \o Padded(RoundedMicros(s) % Pow10(CoordPlaces), CoordPlaces)

DecimalSyntax(s) ==
    LET t == SelectSeq(Strip(s), LAMBDA c : c # "_")
        u == Unsigned(t)
        n == Len(u)
        low == [i \in 1..n |-> Lower(u[i])]
        Digs(a, b) == \A i \in a..b : IsDigit(u[i])
        Mantissa(m) ==
            /\ \A i \in 1..m : IsDigit(u[i]) \/ u[i] = "."
            /\ Cardinality({i \in 1..m : u[i] = "."}) <= 1
            /\ \E i \in 1..m : IsDigit(u[i])
        Exponent(a) ==
            \E x \in {a, a + 1} :
                /\ x <= n
                /\ x = a + 1 => u[a] \in {"-", "+"}
                /\ Digs(x, n)
        Numeral ==
            \E m \in 1..n :
                /\ Mantissa(m)
                /\ m < n => (low[m + 1] = "e" /\ Exponent(m + 2))
        Special ==
            \/ low \in {<<"i", "n", "f">>, <<"i", "n", "f", "i", "n", "i", "t", "y">>}
            \/ n >= 3 /\ SubSeq(low, 1, 3) = <<"n", "a", "n">> /\ Digs(4, n)
            \/ n >= 4 /\ SubSeq(low, 1, 4) = <<"s", "n", "a", "n">> /\ Digs(5, n)
    IN  Numeral \/ Special

\* C3: when both coordinates are present and one is not parseable as a
\* decimal, validation fails with the InvalidCoordinate error, a form-level
\* error other than MissingLocation, and returns no cleaned coordinates
C3_InvalidCoordinateRejected ==
    \A f \in ValidatedNewVisitForms :
        (/\ ~Blank(f.data.latitude)
         /\ ~Blank(f.data.longitude)
         /\ ~DecimalSyntax(f.data.latitude.chars) \/ ~DecimalSyntax(f.data.longitude.chars)) =>
            /\ ~f.result.ok
            /\ f.result.error = InvalidCoordinate
            /\ f.result.error # MissingLocation
            /\ f.result.field = NonFieldErrors
            /\ f.result.latitude = None
            /\ f.result.longitude = None

\* a validated submission with a decimal latitude and the longitude "x"
C3_Witness ==
    \E f \in ValidatedNewVisitForms :
        /\ f.data.latitude = Text(<<"-", "5", ".", "5">>)
        /\ f.data.longitude = Text(<<"x">>)
        /\ f.result.error = InvalidCoordinate


(***************************************************************************)
(* SpecContacts: NewVisitForm instantiated over a contact directory.       *)
(***************************************************************************)
Companies == 1..MaxCompanies

\* collation ranks of the contact names; two contacts may share a name
ContactNames == {1, 2}

\* the directories of MaxContacts contacts (ids are assigned from 1)
ContactDirectories ==
    {{[id |-> i, customer_id |-> f[i][1], contact_name |-> f[i][2]] : i \in 1..MaxContacts} :
        f \in [1..MaxContacts -> Companies \X ContactNames]}

\* what a submission may hold for company_name: no key, "", the id of a
\* company or of no company, and texts that are not a canonical id
CompanyInputs ==
    {None, Text(<<>>), Text(<<"x">>), Text(<<" ">>), Text(<<" ", "1">>),
     Text(<<"-", "1">>), Text(<<"1", ".", "0">>), Text(<<"0", "2">>)}
    \cup {Text(NatToText(c)) : c \in 0..(MaxCompanies + 1)}

ContactData ==
    {[company_name |-> c, latitude |-> None, longitude |-> None] : c \in CompanyInputs}

\* an unsaved record, with or without a company, and saved records
Instances ==
    {[pk |-> 0, company_name_id |-> c] : c \in {0, 1}}
    \cup {[pk |-> 1, company_name_id |-> c] : c \in 0..MaxCompanies}

InitContacts ==
    /\ contacts \in ContactDirectories
    /\ base_fields = NoBaseFields
    /\ forms = <<>>

\* the form is rendered for a record and a submission
NewVisitRender ==
    /\ forms = <<>>
    /\ NewVisitOpen(ContactData, Instances)

\* the user of a saved record picks company 1, or clears the selection,
\* and the form is rendered again
NewVisitRerender ==
    /\ forms # <<>>
    /\ NewVisitOpen({d \in ContactData : d.company_name \in {None, Text(<<"1">>)}},
                    {i \in Instances : i.pk # 0 /\ i.company_name_id = MaxCompanies})

NextContacts == NewVisitRender \/ NewVisitRerender

SpecContacts == InitContacts /\ [][NextContacts]_vars

\* the rows of a choice list
Rows(q) == {q[i] : i \in 1..Len(q)}

\* the choice list q is exactly the contacts of company a, each once,
\* ordered by contact name
IsContactListOf(q, a) ==
    /\ Rows(q) = {c \in contacts : c.customer_id = a}
    /\ Len(q) = Cardinality(Rows(q))
    /\ \A i \in 1..Len(q), j \in 1..Len(q) : i < j => q[i].contact_name <= q[j].contact_name

\* the submission selects company a: company_name is the numeral of a
Selects(data, a) == data.company_name = Text(NatToText(a))

NothingSelected(data) == data.company_name \in {None, Text(<<>>)}

Widget(kind, class, rows) == [kind |-> kind, class |-> class, rows |-> rows]

CheckboxInput(class) == Widget("CheckboxInput", class, 0)

Select(class) == Widget("Select", class, 0)

NumberInput(class) == Widget("NumberInput", class, 0)

Textarea(class, rows) == Widget("Textarea", class, rows)

HiddenInput == Widget("HiddenInput", "", 0)

Won == <<"W", "o", "n">>

Lost == <<"L", "o", "s", "t">>

\* stage=None and contract_outcome=None, the defaults of the keyword arguments
NoStage == "None"

NoOutcome == "None"

(***************************************************************************)
(* UpdateVisitForm                                                         *)
(***************************************************************************)
StageFields ==
    {"is_order_final", "contract_outcome", "contract_amount", "reason_lost",
     "is_payment_collected"}

\* Meta.widgets of UpdateVisitForm for the stage-dependent fields
UpdateVisitWidgets ==
    [is_order_final       |-> CheckboxInput("form-check-input"),
     contract_outcome     |-> Select("form-select"),
     contract_amount      |-> NumberInput("form-control"),
     reason_lost          |-> Textarea("form-control", 2),
     is_payment_collected |-> CheckboxInput("form-check-input")]

\* the kinds of form field the NewVisit model gives the stage-dependent
\* fields: two flags, an enumeration, a number and a free text
UpdateVisitKinds ==
    [is_order_final       |-> "boolean",
     contract_outcome     |-> "choice",
     contract_amount      |-> "number",
     reason_lost          |-> "text",
     is_payment_collected |-> "boolean"]

\* the choices of contract_outcome the model declares: Won, Lost, or unset
OutcomeChoices == {<<>>, Won, Lost}

\* the class-level fields of UpdateVisitForm; required[n] is whether the
\* model makes field n mandatory
UpdateVisitBaseFields(required) ==
    [n \in StageFields |->
        [required |-> required[n],
         widget   |-> UpdateVisitWidgets[n],
         choices  |-> IF n = "contract_outcome" THEN OutcomeChoices ELSE {}]]

\* super().__init__(): self.fields is a deep copy of the class-level fields
CopyFields(base) == base

\* a constructor that works on the class-level fields themselves
BaseFieldsAfterInit_Shared(base, fields) == fields

\* the class-level fields after an instance with these fields was built
BaseFieldsAfterInit(base, fields) == base

\* a loop that leaves the fields as the model declares them
RelaxStageFields_Skip(fields) == fields

\* lines 131-134: every stage-dependent field becomes optional (no widget
\* has a "hidden" attribute, so the pop changes nothing)
RelaxStageFields(fields) ==
    [n \in DOMAIN fields |->
        IF n \in StageFields THEN [fields[n] EXCEPT !.required = FALSE] ELSE fields[n]]

\* the Closing branch without "required = True"
UpdateVisitStageRules_Optional(fields, stage, instance, data) ==
    IF stage = "Closing"
    THEN [fields EXCEPT !.contract_outcome.widget = Select("form-select"),
                        !.contract_outcome.choices = {Won, Lost}]
    ELSE fields

\* the Closing branch deciding on the submitted outcome
UpdateVisitStageRules_Submitted(fields, stage, instance, data) ==
    IF stage = "Closing" /\ data.contract_outcome = Text(Lost)
    THEN [fields EXCEPT !.contract_outcome.widget = Select("form-select"),
                        !.contract_outcome.choices = {Won, Lost},
                        !.contract_outcome.required = TRUE,
                        !.contract_amount.widget = HiddenInput]
    ELSE IF stage = "Closing"
    THEN [fields EXCEPT !.contract_outcome.widget = Select("form-select"),
                        !.contract_outcome.choices = {Won, Lost},
                        !.contract_outcome.required = TRUE]
    ELSE fields

\* lines 137-154: the rules of the stage; instance.contract_outcome is the
\* outcome stored on the bound record, data (self.data) the submission,
\* which the rules do not read
UpdateVisitStageRules(fields, stage, instance, data) ==
    IF stage = "Proposal or Negotiation"
    THEN [fields EXCEPT !.is_order_final.widget = CheckboxInput("form-check-input")]
    ELSE IF stage = "Closing"
    THEN LET closing ==
                 [fields EXCEPT !.contract_outcome.widget = Select("form-select"),
                                !.contract_outcome.choices = {Won, Lost},
                                !.contract_outcome.required = TRUE]
         IN  IF instance.contract_outcome = "Won"
             THEN [closing EXCEPT
                       !.contract_amount.widget = NumberInput("form-control"),
                       !.is_payment_collected.widget = CheckboxInput("form-check-input")]
             ELSE IF instance.contract_outcome = "Lost"
             THEN [closing EXCEPT !.reason_lost.widget = Textarea("form-control", 2)]
             ELSE closing
    ELSE IF stage = "Payment Followup"
    THEN [fields EXCEPT !.is_payment_collected.widget = CheckboxInput("form-check-input")]
    ELSE fields

\* self.fields after UpdateVisitForm.__init__
UpdateVisitFields(base, stage, instance, data) ==
    UpdateVisitStageRules(RelaxStageFields(CopyFields(base)), stage, instance, data)

(***************************************************************************)
(* Field validation (Field.clean of the form library): the error code of   *)
(* one submitted value, "" when the value is accepted.                     *)
(***************************************************************************)
\* the values a checkbox reads as unchecked
UncheckedTexts == {<<>>, <<"0">>, <<"f", "a", "l", "s", "e">>, <<"F", "a", "l", "s", "e">>}

IsEmptyValue(kind, raw) ==
    IF kind = "boolean"
    THEN ~raw.present \/ raw.chars \in UncheckedTexts
    ELSE ~raw.present \/ Strip(raw.chars) = <<>>

FieldError(field, kind, raw) ==
    IF IsEmptyValue(kind, raw)
    THEN IF field.required THEN "required" ELSE ""
    ELSE IF kind = "choice" /\ raw.chars \notin field.choices THEN "invalid_choice"
    ELSE IF kind = "number"
            /\ ~(ParseDecimal(raw.chars).ok /\ ParseDecimal(raw.chars).d.kind = "fin")
    THEN "invalid"
    ELSE ""

\* the errors of a submission, field by field
FieldErrors(fields, kinds, data) ==
    [n \in DOMAIN fields |-> FieldError(fields[n], kinds[n], data[n])]

NoErrors(fields) == [n \in DOMAIN fields |-> ""]

\* UpdateVisitForm(data, instance=instance, stage=stage)
UpdateVisitFormInit(base, stage, instance, data) ==
    [cls |-> "UpdateVisitForm",
     stage |-> stage,
     instance |-> instance,
     data |-> data,
     fields |-> UpdateVisitFields(base, stage, instance, data),
     validated |-> FALSE,
     errors |-> NoErrors(base)]

\* form.is_valid() of an UpdateVisitForm
UpdateVisitFormFullClean(f) ==
    [f EXCEPT !.validated = TRUE,
              !.errors = FieldErrors(f.fields, UpdateVisitKinds, f.data)]


(***************************************************************************)
(* SpecVisit: an UpdateVisitForm is instantiated for a stage and a bound   *)
(* record, then validated.                                                 *)
(***************************************************************************)
Stages == {NoStage, "New", "Proposal or Negotiation", "Closing", "Payment Followup", "closing"}

StoredOutcomes == {NoOutcome, "Won", "Lost"}

VisitInstances == {[contract_outcome |-> o] : o \in StoredOutcomes}

\* what a submission may hold for contract_outcome
OutcomeInputs == {None, Text(<<>>), Text(Won), Text(Lost), Text(<<"M", "a", "y", "b", "e">>)}

\* submissions: contract_outcome varies, the other fields are left out or
\* filled in together
VisitData ==
    {[is_order_final       |-> IF filled THEN Text(<<"o", "n">>) ELSE None,
      contract_outcome     |-> o,
      contract_amount      |-> IF filled THEN Text(<<"5", "0", "0">>) ELSE None,
      reason_lost          |-> IF filled THEN Text(<<"x">>) ELSE Text(<<>>),
      is_payment_collected |-> IF filled THEN Text(<<"o", "n">>) ELSE None] :
        o \in OutcomeInputs, filled \in BOOLEAN}

\* the model may make any of the stage-dependent fields mandatory
VisitRequiredOptions ==
    {r \in [StageFields -> BOOLEAN] :
        \A n, m \in StageFields \ {"contract_outcome"} : r[n] = r[m]}

NoProductFields == <<>>

InitVisit ==
    /\ contacts = NoContacts
    /\ \E r \in VisitRequiredOptions :
           base_fields = [UpdateVisitForm |-> UpdateVisitBaseFields(r),
                          UpdateProductInterestedForm |-> NoProductFields]
    /\ forms = <<>>

\* UpdateVisitForm(data, instance=instance, stage=stage) for one of the
\* given submissions, keeping only this form
UpdateVisitOpen(datas) ==
    \E stage \in Stages, instance \in VisitInstances, data \in datas :
        LET f == UpdateVisitFormInit(base_fields.UpdateVisitForm, stage, instance, data)
        IN  /\ forms' = <<f>>
            /\ base_fields' = [base_fields EXCEPT !.UpdateVisitForm =
                                  BaseFieldsAfterInit(base_fields.UpdateVisitForm, f.fields)]
            /\ UNCHANGED contacts

\* the first request
UpdateVisitRender ==
    /\ forms = <<>>
    /\ UpdateVisitOpen(VisitData)

\* the user resubmits after a validation, all fields filled in
UpdateVisitResubmit ==
    /\ forms # <<>>
    /\ Last.validated
    /\ UpdateVisitOpen({d \in VisitData : d.contract_amount # None})

\* form.is_valid() on the latest form
UpdateVisitIsValid ==
    /\ forms # <<>>
    /\ Last.cls = "UpdateVisitForm"
    /\ ~Last.validated
    /\ forms' = [forms EXCEPT ![Len(forms)] = UpdateVisitFormFullClean(Last)]
    /\ UNCHANGED <<contacts, base_fields>>

NextVisit == UpdateVisitRender \/ UpdateVisitIsValid \/ UpdateVisitResubmit

SpecVisit == InitVisit /\ [][NextVisit]_vars

VisitForms == {f \in AllForms : f.cls = "UpdateVisitForm"}

RequiredErrors(f) == {n \in DOMAIN f.errors : f.errors[n] = "required"}

\* C4: with stage "Closing" contract_outcome is required and accepts only
\* Won and Lost: a submission without it has exactly one required-field
\* error, on contract_outcome, and any other value is an invalid choice
C4_ClosingRequiresOutcome ==
    \A f \in VisitForms :
        f.stage = "Closing" =>
            /\ f.fields.contract_outcome.required
            /\ f.fields.contract_outcome.choices = {Won, Lost}
            /\ f.validated =>
                   /\ f.data.contract_outcome \in {None, Text(<<>>)} =>
                          RequiredErrors(f) = {"contract_outcome"}
                   /\ f.data.contract_outcome \in {Text(Won), Text(Lost)} =>
                          f.errors.contract_outcome = ""
                   /\ f.data.contract_outcome \notin {None, Text(<<>>), Text(Won), Text(Lost)} =>
                          f.errors.contract_outcome = "invalid_choice"

\* a Closing form of a record without outcome, of a model that makes all
\* five fields mandatory, validated without contract_outcome
C4_Witness ==
    \E f \in VisitForms :
        /\ f.stage = "Closing"
        /\ f.instance.contract_outcome = NoOutcome
        /\ f.validated
        /\ f.data.contract_outcome = None
        /\ f.data.contract_amount = None
        /\ f.errors.contract_outcome = "required"
        /\ \A n \in StageFields : base_fields.UpdateVisitForm[n].required

\* the fields every UpdateVisitForm starts from: the class-level fields
\* with the five stage-dependent fields optional
VisitBaseline ==
    [n \in StageFields |-> [base_fields.UpdateVisitForm[n] EXCEPT !.required = FALSE]]

\* C8: is_order_final, contract_amount, reason_lost and is_payment_collected
\* are never required, contract_outcome is required exactly when the stage
\* is "Closing", and a stage other than "Proposal or Negotiation", "Closing"
\* and "Payment Followup" leaves the fields as the baseline has them
C8_BaselineOptional ==
    \A f \in VisitForms :
        /\ \A n \in StageFields \ {"contract_outcome"} : ~f.fields[n].required
        /\ f.fields.contract_outcome.required <=> f.stage = "Closing"
        /\ f.stage \notin {"Proposal or Negotiation", "Closing", "Payment Followup"} =>
               f.fields = VisitBaseline

\* a form without stage of a model that makes all five fields mandatory
C8_Witness ==
    \E f \in VisitForms :
        /\ f.stage = NoStage
        /\ \A n \in StageFields : base_fields.UpdateVisitForm[n].required
        /\ f.fields = VisitBaseline


(***************************************************************************)
(* UpdateProductInterestedForm                                             *)
(***************************************************************************)
NumericFields == {"order_estimate", "final_order_amount", "payment_collected"}

ProductFields == NumericFields \cup {"product_interested"}

\* Meta.widgets of UpdateProductInterestedForm
UpdateProductWidgets ==
    [product_interested |-> Select("form-select"),
     order_estimate     |-> NumberInput("form-control field-order_estimate"),
     final_order_amount |-> NumberInput("form-control field-final_order_amount"),
     payment_collected  |-> NumberInput("form-control field-payment_collected")]

\* the kinds of form field the ProductInterested model gives them: a
\* reference to a product and three numbers
UpdateProductKinds ==
    [product_interested |-> "choice",
     order_estimate     |-> "number",
     final_order_amount |-> "number",
     payment_collected  |-> "number"]

\* the ids of the products one may refer to
ProductChoices == {<<"1">>, <<"2">>}

\* the class-level fields of UpdateProductInterestedForm; the product
\* reference is mandatory, required[n] is whether the model makes the
\* numeric field n mandatory
UpdateProductBaseFields(required) ==
    [n \in ProductFields |->
        [required |-> IF n \in NumericFields THEN required[n] ELSE TRUE,
         widget   |-> UpdateProductWidgets[n],
         choices  |-> IF n = "product_interested" THEN ProductChoices ELSE {}]]

\* lines 174-176: the three numeric fields become optional
RelaxNumericFields(fields) ==
    [n \in DOMAIN fields |->
        IF n \in NumericFields THEN [fields[n] EXCEPT !.required = FALSE] ELSE fields[n]]

\* rules that require final_order_amount at Closing whatever the outcome
ProductStageRules_AnyOutcome(fields, stage, contract_outcome) ==
    IF stage = "Proposal or Negotiation"
    THEN [fields EXCEPT !.order_estimate.required = TRUE]
    ELSE IF stage = "Closing"
    THEN IF contract_outcome = "Lost"
         THEN [fields EXCEPT !.final_order_amount.required = TRUE,
                             !.final_order_amount.widget = HiddenInput,
                             !.payment_collected.widget = HiddenInput]
         ELSE [fields EXCEPT !.final_order_amount.required = TRUE]
    ELSE IF stage = "Payment Followup"
    THEN [fields EXCEPT !.payment_collected.required = TRUE]
    ELSE fields

\* rules that hide payment_collected at Closing with outcome Won
ProductStageRules_HidePayment(fields, stage, contract_outcome) ==
    IF stage = "Proposal or Negotiation"
    THEN [fields EXCEPT !.order_estimate.required = TRUE]
    ELSE IF stage = "Closing"
    THEN IF contract_outcome = "Won"
         THEN [fields EXCEPT !.final_order_amount.required = TRUE,
                             !.payment_collected.widget = HiddenInput]
         ELSE IF contract_outcome = "Lost"
         THEN [fields EXCEPT !.final_order_amount.widget = HiddenInput,
                             !.payment_collected.widget = HiddenInput]
         ELSE fields
    ELSE IF stage = "Payment Followup"
    THEN [fields EXCEPT !.payment_collected.required = TRUE]
    ELSE fields

\* lines 178-202: the rules of the stage and of the contract_outcome argument
ProductStageRules(fields, stage, contract_outcome) ==
    IF stage = "Proposal or Negotiation"
    THEN [fields EXCEPT !.order_estimate.required = TRUE]
    ELSE IF stage = "Closing"
    THEN IF contract_outcome = "Won"
         THEN [fields EXCEPT
                   !.final_order_amount.required = TRUE,
                   !.payment_collected.widget =
                       NumberInput("form-control field-payment_collected")]
         ELSE IF contract_outcome = "Lost"
         THEN [fields EXCEPT !.final_order_amount.widget = HiddenInput,
                             !.payment_collected.widget = HiddenInput]
         ELSE fields
    ELSE IF stage = "Payment Followup"
    THEN [fields EXCEPT
              !.payment_collected.required = TRUE,
              !.payment_collected.widget =
                  NumberInput("form-control field-payment_collected")]
    ELSE fields

\* self.fields after UpdateProductInterestedForm.__init__
UpdateProductFields(base, stage, contract_outcome) ==
    ProductStageRules(RelaxNumericFields(CopyFields(base)), stage, contract_outcome)

\* UpdateProductInterestedForm(data, stage=stage, contract_outcome=contract_outcome)
UpdateProductFormInit(base, stage, contract_outcome, data) ==
    [cls |-> "UpdateProductInterestedForm",
     stage |-> stage,
     contract_outcome |-> contract_outcome,
     data |-> data,
     fields |-> UpdateProductFields(base, stage, contract_outcome),
     validated |-> FALSE,
     errors |-> NoErrors(base)]

\* form.is_valid() of an UpdateProductInterestedForm
UpdateProductFormFullClean(f) ==
    [f EXCEPT !.validated = TRUE,
              !.errors = FieldErrors(f.fields, UpdateProductKinds, f.data)]

(***************************************************************************)
(* SpecProduct: an UpdateProductInterestedForm is instantiated for a stage *)
(* and an outcome, then validated.                                         *)
(***************************************************************************)
OutcomeArguments == {NoOutcome, "Won", "Lost", "won"}

\* what a submission may hold for a numeric field
NumberInputs == {None, Text(<<>>), Text(<<"5">>), Text(<<"x">>)}

ProductData ==
    {[product_interested |-> p, order_estimate |-> a,
      final_order_amount |-> b, payment_collected |-> c] :
        p \in {None, Text(<<"1">>)}, a \in NumberInputs, b \in NumberInputs, c \in NumberInputs}

\* the model may make all or none of the numeric fields mandatory
ProductRequiredOptions == {[n \in NumericFields |-> b] : b \in BOOLEAN}

NoVisitFields == <<>>

InitProduct ==
    /\ contacts = NoContacts
    /\ \E r \in ProductRequiredOptions :
           base_fields = [UpdateVisitForm |-> NoVisitFields,
                          UpdateProductInterestedForm |-> UpdateProductBaseFields(r)]
    /\ forms = <<>>

\* UpdateProductInterestedForm(data, stage=..., contract_outcome=...) for one
\* of the given submissions, keeping only this form
UpdateProductOpen(datas) ==
    \E stage \in Stages, outcome \in OutcomeArguments, data \in datas :
        LET f == UpdateProductFormInit(base_fields.UpdateProductInterestedForm,
                                       stage, outcome, data)
        IN  /\ forms' = <<f>>
            /\ base_fields' = [base_fields EXCEPT !.UpdateProductInterestedForm =
                                  BaseFieldsAfterInit(base_fields.UpdateProductInterestedForm,
                                                      f.fields)]
            /\ UNCHANGED contacts

\* the first request
UpdateProductRender ==
    /\ forms = <<>>
    /\ UpdateProductOpen(ProductData)

\* the user resubmits after a validation, every number filled in
UpdateProductResubmit ==
    /\ forms # <<>>
    /\ Last.validated
    /\ UpdateProductOpen({d \in ProductData :
                             \A n \in NumericFields : d[n] = Text(<<"5">>)})

\* form.is_valid() on the latest form
UpdateProductIsValid ==
    /\ forms # <<>>
    /\ Last.cls = "UpdateProductInterestedForm"
    /\ ~Last.validated
    /\ forms' = [forms EXCEPT ![Len(forms)] = UpdateProductFormFullClean(Last)]
    /\ UNCHANGED <<contacts, base_fields>>

NextProduct == UpdateProductRender \/ UpdateProductIsValid \/ UpdateProductResubmit

SpecProduct == InitProduct /\ [][NextProduct]_vars

ProductForms == {f \in AllForms : f.cls = "UpdateProductInterestedForm"}

\* the numeric fields the specification makes required for a stage and outcome
RequiredNumericFields(stage, outcome) ==
    CASE stage = "Proposal or Negotiation" -> {"order_estimate"}
      [] stage = "Closing" /\ outcome = "Won" -> {"final_order_amount"}
      [] stage = "Payment Followup" -> {"payment_collected"}
      [] OTHER -> {}

\* C5: the required numeric fields are order_estimate for "Proposal or
\* Negotiation", final_order_amount for "Closing" with outcome Won,
\* payment_collected for "Payment Followup" and none otherwise; leaving the
\* required field out fails and giving it a number succeeds
C5_RequiredNumericFields ==
    \A f \in ProductForms :
        /\ {n \in NumericFields : f.fields[n].required}
               = RequiredNumericFields(f.stage, f.contract_outcome)
        /\ f.validated =>
               \A n \in RequiredNumericFields(f.stage, f.contract_outcome) :
                   /\ f.data[n] \in {None, Text(<<>>)} => f.errors[n] = "required"
                   /\ f.data[n] = Text(<<"5">>) => f.errors[n] = ""
                   /\ (/\ f.data[n] = Text(<<"5">>)
                       /\ f.data.product_interested = Text(<<"1">>)
                       /\ \A m \in NumericFields : f.data[m] # Text(<<"x">>)) =>
                          \A m \in ProductFields : f.errors[m] = ""

\* a Closing/Won form validated without final_order_amount, of a model that
\* makes no numeric field mandatory
C5_Witness ==
    \E f \in ProductForms :
        /\ f.stage = "Closing"
        /\ f.contract_outcome = "Won"
        /\ f.validated
        /\ f.data.product_interested = Text(<<"1">>)
        /\ f.data.order_estimate = None
        /\ f.data.payment_collected = None
        /\ f.data.final_order_amount = None
        /\ f.errors.final_order_amount = "required"
        /\ ~base_fields.UpdateProductInterestedForm.final_order_amount.required

IsHidden(field) == field.widget.kind = "HiddenInput"

SeqStages == {NoStage, "Closing"}

SeqOutcomes == {"Won", "Lost"}

SeqVisitData ==
    {d \in VisitData :
        \/ d.contract_outcome = None /\ d.contract_amount = None
        \/ d.contract_outcome \in {Text(Won), Text(Lost)} /\ d.contract_amount # None}

SeqProductData ==
    {d \in ProductData :
        /\ d.product_interested # None
        /\ \/ \A n \in NumericFields : d[n] = None
           \/ \A n \in NumericFields : d[n] = Text(<<"5">>)}

SeqCleanData ==
    {[company_name |-> None, latitude |-> a,
      longitude |-> Text(<<"1", "2", ".", "1", "2", "3", "4", "5", "6", "5">>)] :
        a \in {None, Text(<<"-", "5", ".", "5">>)}}

InitSeq ==
    /\ contacts = NoContacts
    /\ \E b \in BOOLEAN :
           base_fields =
               [UpdateVisitForm |-> UpdateVisitBaseFields([n \in StageFields |-> b]),
                UpdateProductInterestedForm |->
                    UpdateProductBaseFields([n \in NumericFields |-> b])]
    /\ forms = <<>>

\* a request that builds a NewVisitForm from the submission and validates it
NewVisitRequest ==
    /\ Len(forms) < MaxForms
    /\ \E data \in SeqCleanData :
           \E q \in ContactQuerysets(contacts, data, NoInstance) :
               forms' = Append(forms,
                               NewVisitFormFullClean(NewVisitFormInit(data, NoInstance, q)))
    /\ UNCHANGED <<contacts, base_fields>>

\* a request that builds an UpdateVisitForm and validates it
UpdateVisitRequest ==
    /\ Len(forms) < MaxForms
    /\ \E stage \in SeqStages, o \in SeqOutcomes, data \in SeqVisitData :
           LET f == UpdateVisitFormInit(base_fields.UpdateVisitForm, stage,
                                        [contract_outcome |-> o], data)
           IN  /\ forms' = Append(forms, UpdateVisitFormFullClean(f))
               /\ base_fields' = [base_fields EXCEPT !.UpdateVisitForm =
                                     BaseFieldsAfterInit(base_fields.UpdateVisitForm, f.fields)]
    /\ UNCHANGED contacts

\* a request that builds an UpdateProductInterestedForm and validates it
UpdateProductRequest ==
    /\ Len(forms) < MaxForms
    /\ \E o \in SeqOutcomes, data \in SeqProductData :
           LET f == UpdateProductFormInit(base_fields.UpdateProductInterestedForm,
                                          "Closing", o, data)
           IN  /\ forms' = Append(forms, UpdateProductFormFullClean(f))
               /\ base_fields' = [base_fields EXCEPT !.UpdateProductInterestedForm =
                                     BaseFieldsAfterInit(
                                         base_fields.UpdateProductInterestedForm, f.fields)]
    /\ UNCHANGED contacts

NextSeq == NewVisitRequest \/ UpdateVisitRequest \/ UpdateProductRequest

SpecSeq == InitSeq /\ [][NextSeq]_vars

IsVisitForm(i) == forms[i].cls = "UpdateVisitForm"

IsProductForm(i) == forms[i].cls = "UpdateProductInterestedForm"

IsNewVisitForm(i) == forms[i].cls = "NewVisitForm"

\* C9: at stage "Closing" a stored outcome Won leaves contract_amount and
\* is_payment_collected editable and optional, a stored outcome Lost leaves
\* reason_lost editable, and two forms with the same stage and the same
\* stored outcome have the same fields whatever outcome was submitted
C9_StoredOutcomeDecides ==
    \A i \in 1..Len(forms) :
        IsVisitForm(i) =>
            /\ (forms[i].stage = "Closing" /\ forms[i].instance.contract_outcome = "Won") =>
                   /\ forms[i].fields.contract_amount.widget = NumberInput("form-control")
                   /\ forms[i].fields.is_payment_collected.widget
                          = CheckboxInput("form-check-input")
                   /\ ~forms[i].fields.contract_amount.required
                   /\ ~forms[i].fields.is_payment_collected.required
            /\ (forms[i].stage = "Closing" /\ forms[i].instance.contract_outcome = "Lost") =>
                   forms[i].fields.reason_lost.widget = Textarea("form-control", 2)
            /\ \A j \in 1..Len(forms) :
                   (/\ IsVisitForm(j)
                    /\ forms[j].stage = forms[i].stage
                    /\ forms[j].instance = forms[i].instance) =>
                       forms[j].fields = forms[i].fields

\* two Closing forms of a record with outcome Won, one submitted with Lost
\* and one with Won
C9_Witness ==
    \E i, j \in 1..Len(forms) :
        /\ IsVisitForm(i) /\ IsVisitForm(j)
        /\ forms[i].stage = "Closing" /\ forms[j].stage = "Closing"
        /\ forms[i].instance.contract_outcome = "Won"
        /\ forms[j].instance.contract_outcome = "Won"
        /\ forms[i].data.contract_outcome = Text(Lost)
        /\ forms[j].data.contract_outcome = Text(Won)

\* a submission every rule accepts
AcceptableSubmission(i) ==
    \/ /\ IsNewVisitForm(i)
       /\ CoordinateText(forms[i].data.latitude, 90)
       /\ CoordinateText(forms[i].data.longitude, 180)
    \/ /\ IsVisitForm(i)
       /\ forms[i].data.contract_outcome \in {Text(Won), Text(Lost)}
    \/ /\ IsProductForm(i)
       /\ \A n \in NumericFields : forms[i].data[n] = Text(<<"5">>)

Succeeded(i) ==
    IF IsNewVisitForm(i) THEN forms[i].result.ok
    ELSE \A n \in DOMAIN forms[i].errors : forms[i].errors[n] = ""

SameRequest(i, j) ==
    /\ forms[i].cls = forms[j].cls
    /\ forms[i].data = forms[j].data
    /\ IsNewVisitForm(i) => forms[i].instance = forms[j].instance
    /\ IsVisitForm(i) => (forms[i].stage = forms[j].stage
                          /\ forms[i].instance = forms[j].instance)
    /\ IsProductForm(i) => (forms[i].stage = forms[j].stage
                            /\ forms[i].contract_outcome = forms[j].contract_outcome)

\* C10: in any sequence of requests, two forms built from the same
\* parameters, submission and record are equal in fields and in result
\* wherever they stand in the sequence, and an acceptable submission
\* succeeds whatever was instantiated or rejected before it
C10_NoCarryOver ==
    \A i \in 1..Len(forms) :
        /\ AcceptableSubmission(i) => Succeeded(i)
        /\ \A j \in 1..Len(forms) : SameRequest(i, j) => forms[i] = forms[j]

\* a Closing/Lost product form, then a Closing/Won one rejected for its
\* missing amount, then the same one resubmitted with the amount and accepted
C10_Witness ==
    /\ Len(forms) = 3
    /\ IsProductForm(1) /\ IsProductForm(2) /\ IsProductForm(3)
    /\ forms[1].contract_outcome = "Lost"
    /\ forms[2].contract_outcome = "Won"
    /\ forms[3].contract_outcome = "Won"
    /\ IsHidden(forms[1].fields.final_order_amount)
    /\ forms[2].errors.final_order_amount = "required"
    /\ AcceptableSubmission(3)
    /\ Succeeded(3)

=============================================================================
